---- MODULE Spec2Model ----
(***************************************************************************)
(* Model of scrape.py: the producer (main), WORKER_COUNT download workers  *)
(* (worker), the console renderer (downloading_info_thread), the work      *)
(* queue (queue.Queue with its unfinished_tasks counter), the progress     *)
(* registry (currently_downloading) with its lock, and the shutdown flag   *)
(* (finish[0]).                                                            *)
(*                                                                         *)
(* Each thread is a small program counter machine; one action is one step  *)
(* of one thread between two points where another thread can observe or    *)
(* change shared state.  The network and the file system are the           *)
(* environment: what a request answers and how many bytes a chunk holds    *)
(* are chosen nondeterministically inside the worker's steps.              *)
(***************************************************************************)
EXTENDS Integers, Sequences, FiniteSets, TLC

\* ------------------------------------------------------------------ bounds

\* scrape.py sets WORKER_COUNT = 8; the model runs the same code with fewer
\* threads.
WORKER_COUNT == 2
\* query_episodes is unbounded until the pager ends; the model lets it yield
\* at most this many episodes.
MaxEpisodes == 3
\* Largest value of the content-length header, in abstract byte units.
MaxLength == 1
\* Largest number of (decoded) body bytes iter_content delivers for one task.
MaxBody == 2
\* Largest size of one chunk of iter_content (the code asks for 64 KiB).
MaxChunk == 2

\* ------------------------------------------------------------- environment

Workers == 1..WORKER_COUNT

\* Titles the discovery pages can carry; two episodes can carry the same one.
Titles == {"a", "b", "c"}
\* Audio URLs, as the list of their "."-separated pieces (url.split(".")).
Urls == {<<"https://cdn/ep", "mp3">>}
\* Titles whose file a run before this one can have left on disk.
DownloadedBefore == {"a"}
\* args.output
OutputDir == "episodes"

\* The worker's local i before the first successful queue.get.
NoItem == [url |-> <<>>, filename |-> <<>>, display_filename |-> <<>>]
\* {}
EmptyDict == [k \in {} |-> 0]
\* The lock's holder: no thread, a worker (its number), or the renderer.
Free == 0
Renderer == WORKER_COUNT + 1

VARIABLES
  mainPc,                \* where main() is
  yielded,               \* episodes query_episodes has yielded so far
  files,                 \* paths that exist on disk (os.path.exists)
  queue,                 \* Queue: the items waiting, FIFO
  unfinished,            \* Queue.unfinished_tasks
  currently_downloading, \* dict display_filename -> percent
  lock,                  \* currently_downloading_lock: Free or its holder
  finish,                \* finish[0]
  wpc,                   \* per worker: where worker() is
  item,                  \* per worker: local i
  length,                \* per worker: local length
  written,               \* per worker: local written
  percent,               \* per worker: local percent (0 before the first chunk)
  dpc,                   \* where downloading_info_thread() is
  s,                     \* renderer local s, as the list of its lines' kinds
  old_lines,             \* renderer local old_lines
  terminal,              \* the screen: kinds of the lines from the block's first row
  cursor,                \* the cursor's row, counted from the block's first row
  shown,                 \* history: entries the renderer found at its last pass
  puts,                  \* history: per display_filename, queue.put calls
  pops,                  \* history: per display_filename, successful queue.get calls
  dones,                 \* history: per display_filename, queue.task_done calls
  flagWrites             \* history: number of assignments to finish[0]

vars == <<mainPc, yielded, files, queue, unfinished, currently_downloading, lock,
          finish, wpc, item, length, written, percent, dpc, s, old_lines,
          terminal, cursor, shown, puts, pops, dones, flagWrites>>

workerLocals == <<item, length, written, percent>>
rendererVars == <<dpc, s, old_lines, terminal, cursor, shown>>

\* ---------------------------------------------------------- pure functions

\* url.split(".")[-1]
Extension(url) == url[Len(url)]

\* episode["title"] + "." + extension
DisplayFilename(title, url) == <<title, Extension(url)>>

\* join(args.output, display_filename)
Filename(title, url) == <<OutputDir>> \o DisplayFilename(title, url)

\* Python's round() of the exact quotient num / den (den > 0): to the nearest
\* integer, a tie to the even neighbour.
Round(num, den) ==
  LET q == num \div den
      r == num % den
  IN  IF 2 * r < den THEN q
      ELSE IF 2 * r > den THEN q + 1
      ELSE IF q % 2 = 0 THEN q ELSE q + 1

\* round((written / length) * 100)
Percent(w, len) == Round(w * 100, len)

\* s.count("\n")
CountLines(str) == Len(str)

\* Every display_filename a task can carry.
Keys == {DisplayFilename(t, u) : t \in Titles, u \in Urls}

\* ------------------------------------------------------------------- Init

Init ==
  /\ mainPc = "start"
  /\ yielded = 0
  /\ files \in SUBSET {Filename(t, u) : t \in DownloadedBefore, u \in Urls}
  /\ queue = <<>>
  /\ unfinished = 0
  /\ currently_downloading = EmptyDict
  /\ lock = Free
  /\ finish = FALSE
  /\ wpc = [w \in Workers |-> "new"]
  /\ item = [w \in Workers |-> NoItem]
  /\ length = [w \in Workers |-> 0]
  /\ written = [w \in Workers |-> 0]
  /\ percent = [w \in Workers |-> 0]
  /\ dpc = "new"
  /\ s = <<>>
  /\ old_lines = 0
  /\ terminal = <<>>
  /\ cursor = 0
  /\ shown = 0
  /\ puts = [k \in Keys |-> 0]
  /\ pops = [k \in Keys |-> 0]
  /\ dones = [k \in Keys |-> 0]
  /\ flagWrites = 0

\* --------------------------------------------------------------- main()

\* Lines 129-136: the worker threads and the renderer thread are created and
\* started.  Until the first queue.put a started worker can only time out on
\* the empty queue, so the starts are one step.
MainStartThreads ==
  /\ mainPc = "start"
  /\ mainPc' = "discover"
  /\ wpc' = [w \in Workers |-> "poll"]
  /\ dpc' = "top"
  /\ UNCHANGED <<yielded, files, queue, unfinished, currently_downloading, lock,
                 finish, workerLocals, s, old_lines, terminal, cursor, shown,
                 puts, pops, dones, flagWrites>>

\* queue.put(item): the item joins the queue and unfinished_tasks grows.
QueuePut(it) ==
  /\ queue' = Append(queue, it)
  /\ unfinished' = unfinished + 1
  /\ puts' = [puts EXCEPT ![it.display_filename] = @ + 1]

\* Mutant of MainEpisode: lines 143-145 left out, every episode is enqueued.
MainEpisodeWithoutExistsCheck ==
  /\ mainPc = "discover"
  /\ yielded < MaxEpisodes
  /\ \E title \in Titles, url \in Urls :
       /\ yielded' = yielded + 1
       /\ QueuePut([url |-> url,
                    filename |-> Filename(title, url),
                    display_filename |-> DisplayFilename(title, url)])
  /\ UNCHANGED <<mainPc, files, currently_downloading, lock, finish, wpc,
                 workerLocals, rendererVars, pops, dones, flagWrites>>

\* Lines 139-150: query_episodes yields one more episode and the loop body
\* runs for it: skipped when its file exists, enqueued otherwise.
MainEpisode ==
  /\ mainPc = "discover"
  /\ yielded < MaxEpisodes
  /\ \E title \in Titles, url \in Urls :
       LET display_filename == DisplayFilename(title, url)
           filename == Filename(title, url)
       IN  /\ yielded' = yielded + 1
           /\ IF filename \in files
                THEN UNCHANGED <<queue, unfinished, puts>>
                ELSE QueuePut([url |-> url,
                               filename |-> filename,
                               display_filename |-> display_filename])
  /\ UNCHANGED <<mainPc, files, currently_downloading, lock, finish, wpc,
                 workerLocals, rendererVars, pops, dones, flagWrites>>

\* Mutant of MainDiscoveryExhausted: lines 152 and 153 swapped, the flag is
\* written when the for loop is left, before queue.join().
MainDiscoveryExhaustedSetsFlag ==
  /\ mainPc = "discover"
  /\ mainPc' = "drain"
  /\ yielded' = 0
  /\ finish' = TRUE
  /\ flagWrites' = flagWrites + 1
  /\ UNCHANGED <<files, queue, unfinished, currently_downloading, lock, wpc,
                 workerLocals, rendererVars, puts, pops, dones>>

\* Lines 50-51 and 139: the pager has no next page, the generator ends and
\* the for loop is left.  (yielded only bounds the generator: it is cleared
\* with it.)
MainDiscoveryExhausted ==
  /\ mainPc = "discover"
  /\ mainPc' = "drain"
  /\ yielded' = 0
  /\ UNCHANGED <<files, queue, unfinished, currently_downloading, lock,
                 finish, wpc, workerLocals, rendererVars, puts, pops, dones, flagWrites>>

\* Lines 18-19, 33-52: a page fetch or a parse step of query_episodes raises.
\* Nothing in main catches it: main() ends by the exception, and the join and
\* the write of finish[0] are never reached.
MainDiscoveryError ==
  /\ mainPc = "discover"
  /\ mainPc' = "crashed"
  /\ yielded' = 0
  /\ UNCHANGED <<files, queue, unfinished, currently_downloading, lock,
                 finish, wpc, workerLocals, rendererVars, puts, pops, dones, flagWrites>>

\* Mutant of QueueJoinReturns: join() waits for the queue to be empty (as the
\* comment on line 151 words it) instead of for unfinished_tasks to be zero.
QueueJoinReturnsWhenEmpty == queue = <<>>

\* Queue.join() returns when unfinished_tasks is zero.
QueueJoinReturns == unfinished = 0

\* Line 152: queue.join().
MainJoin ==
  /\ mainPc = "drain"
  /\ QueueJoinReturns
  /\ mainPc' = "set_finish"
  /\ UNCHANGED <<yielded, files, queue, unfinished, currently_downloading, lock,
                 finish, wpc, workerLocals, rendererVars, puts, pops, dones, flagWrites>>

\* Line 153: finish[0] = True.
MainSetFinish ==
  /\ mainPc = "set_finish"
  /\ finish' = TRUE
  /\ flagWrites' = flagWrites + 1
  /\ mainPc' = "join_threads"
  /\ UNCHANGED <<yielded, files, queue, unfinished, currently_downloading, lock,
                 wpc, workerLocals, rendererVars, puts, pops, dones>>

\* A thread whose function returned or ended by an exception can be joined.
WorkerEnded(w) == wpc[w] \in {"exited", "dead"}

\* Lines 155-156: t.join() for every worker thread.
MainJoinThreads ==
  /\ mainPc = "join_threads"
  /\ \A w \in Workers : WorkerEnded(w)
  /\ mainPc' = "join_di"
  /\ UNCHANGED <<yielded, files, queue, unfinished, currently_downloading, lock,
                 finish, wpc, workerLocals, rendererVars, puts, pops, dones, flagWrites>>

\* Line 157: di_thread.join(), after which main() returns.
MainJoinDi ==
  /\ mainPc = "join_di"
  /\ dpc = "exited"
  /\ mainPc' = "done"
  /\ UNCHANGED <<yielded, files, queue, unfinished, currently_downloading, lock,
                 finish, wpc, workerLocals, rendererVars, puts, pops, dones, flagWrites>>

Main ==
  \/ MainStartThreads
  \/ MainEpisode
  \/ MainDiscoveryExhausted
  \/ MainDiscoveryError
  \/ MainJoin
  \/ MainSetFinish
  \/ MainJoinThreads
  \/ MainJoinDi

\* ------------------------------------------------------------- worker()

\* The locals of worker() carry nothing from one task to the next (each is
\* assigned before it is read), and are gone when the thread ends: the model
\* clears them at those points, and clears length, written and percent when
\* the chunk loop is left, after which only i is read.
ClearLocals(w) ==
  /\ item' = [item EXCEPT ![w] = NoItem]
  /\ length' = [length EXCEPT ![w] = 0]
  /\ written' = [written EXCEPT ![w] = 0]
  /\ percent' = [percent EXCEPT ![w] = 0]

\* Mutant of Raise: the exception is caught around the task and the worker
\* goes back to polling, with no clean-up.
RaiseCaught(w) ==
  /\ wpc' = [wpc EXCEPT ![w] = "poll"]
  /\ ClearLocals(w)

\* An exception leaves worker(): nothing in it catches one, so the thread
\* ends where it stands (no registry delete, no task_done, no lock release).
Raise(w) ==
  /\ wpc' = [wpc EXCEPT ![w] = "dead"]
  /\ ClearLocals(w)

\* Mutant of WorkerPoll: the head of the queue is read but not taken off
\* (queue.queue[0] instead of queue.get).
WorkerPollLeavesHead(w) ==
  /\ wpc[w] = "poll"
  /\ IF finish
       THEN /\ wpc' = [wpc EXCEPT ![w] = "exited"]
            /\ UNCHANGED <<item, pops>>
       ELSE IF queue # <<>>
         THEN /\ item' = [item EXCEPT ![w] = Head(queue)]
              /\ pops' = [pops EXCEPT ![Head(queue).display_filename] = @ + 1]
              /\ wpc' = [wpc EXCEPT ![w] = "lock65"]
         ELSE UNCHANGED <<wpc, item, pops>>
  /\ UNCHANGED <<mainPc, yielded, files, queue, unfinished, currently_downloading,
                 lock, finish, length, written, percent, rendererVars, puts, dones,
                 flagWrites>>

\* Mutant of WorkerPoll: while True instead of while not finish[0].
WorkerPollIgnoresFlag(w) ==
  /\ wpc[w] = "poll"
  /\ IF queue # <<>>
       THEN /\ item' = [item EXCEPT ![w] = Head(queue)]
            /\ queue' = Tail(queue)
            /\ pops' = [pops EXCEPT ![Head(queue).display_filename] = @ + 1]
            /\ wpc' = [wpc EXCEPT ![w] = "lock65"]
       ELSE UNCHANGED <<wpc, item, queue, pops>>
  /\ UNCHANGED <<mainPc, yielded, files, unfinished, currently_downloading, lock,
                 finish, length, written, percent, rendererVars, puts, dones,
                 flagWrites>>

\* Lines 60-64: while not finish[0]; i = queue.get(timeout=1); on Empty,
\* continue.  The flag is written only once the queue is empty for good, so
\* reading it and polling the queue are one step: the thread leaves when the
\* flag is set, takes the head of the queue when there is one, and otherwise
\* times out and is back where it was.
WorkerPoll(w) ==
  /\ wpc[w] = "poll"
  /\ IF finish
       THEN /\ wpc' = [wpc EXCEPT ![w] = "exited"]
            /\ UNCHANGED <<item, queue, pops>>
       ELSE IF queue # <<>>
         THEN /\ item' = [item EXCEPT ![w] = Head(queue)]
              /\ queue' = Tail(queue)
              /\ pops' = [pops EXCEPT ![Head(queue).display_filename] = @ + 1]
              /\ wpc' = [wpc EXCEPT ![w] = "lock65"]
         ELSE UNCHANGED <<wpc, item, queue, pops>>
  /\ UNCHANGED <<mainPc, yielded, files, unfinished, currently_downloading, lock,
                 finish, length, written, percent, rendererVars, puts, dones, flagWrites>>

\* Line 65: lock.acquire() blocks until the lock is free.
WorkerAcquire(w) ==
  /\ wpc[w] = "lock65"
  /\ lock = Free
  /\ lock' = w
  /\ wpc' = [wpc EXCEPT ![w] = "set67"]
  /\ UNCHANGED <<mainPc, yielded, files, queue, unfinished, currently_downloading,
                 finish, workerLocals, rendererVars, puts, pops, dones, flagWrites>>

\* d[key] = value
DictSet(d, key, value) ==
  [k \in DOMAIN d \cup {key} |-> IF k = key THEN value ELSE d[k]]

\* del d[key], for a key that is present
DictDel(d, key) == [k \in DOMAIN d \ {key} |-> d[k]]

\* Mutant of WorkerMarkStart: the lock.release() of line 68 is left out, the
\* GET is issued with the lock held.
WorkerMarkStartKeepsLock(w) ==
  /\ wpc[w] = "set67"
  /\ currently_downloading' =
       DictSet(currently_downloading, item[w].display_filename, 0)
  /\ wpc' = [wpc EXCEPT ![w] = "request"]
  /\ UNCHANGED <<mainPc, yielded, files, queue, unfinished, lock, finish,
                 workerLocals, rendererVars, puts, pops, dones, flagWrites>>

\* Lines 67-68: the entry is created at 0 and the lock released.
WorkerMarkStart(w) ==
  /\ wpc[w] = "set67"
  /\ currently_downloading' =
       DictSet(currently_downloading, item[w].display_filename, 0)
  /\ lock' = Free
  /\ wpc' = [wpc EXCEPT ![w] = "request"]
  /\ UNCHANGED <<mainPc, yielded, files, queue, unfinished, finish, workerLocals,
                 rendererVars, puts, pops, dones, flagWrites>>

\* Lines 69-73: the GET, raise_for_status, the content-length header and the
\* open of the destination file.  Any of the four can raise (connection error,
\* non-success status, header missing or not a number, open refused);
\* otherwise length is the header's value and the file exists, empty.
WorkerRequest(w) ==
  /\ wpc[w] = "request"
  /\ \/ /\ Raise(w)
        /\ UNCHANGED files
     \/ \E len \in 0..MaxLength :
          /\ length' = [length EXCEPT ![w] = len]
          /\ written' = [written EXCEPT ![w] = 0]
          /\ files' = files \cup {item[w].filename}
          /\ wpc' = [wpc EXCEPT ![w] = "chunk"]
          /\ UNCHANGED <<item, percent>>
  /\ UNCHANGED <<mainPc, yielded, queue, unfinished, currently_downloading, lock,
                 finish, rendererVars, puts, pops, dones, flagWrites>>

\* Mutant of WorkerChunk: percent is computed once more when the loop is
\* left, which divides by zero for a length of 0: the worker cannot pass the
\* end of an empty body, it raises there.
WorkerChunkDividesAfterLoop(w) ==
  /\ wpc[w] = "chunk"
  /\ \/ \E c \in 1..MaxChunk :
          /\ length[w] # 0
          /\ written[w] + c <= MaxBody
          /\ lock = Free
          /\ written' = [written EXCEPT ![w] = @ + c]
          /\ percent' = [percent EXCEPT ![w] = Percent(written[w] + c, length[w])]
          /\ lock' = w
          /\ wpc' = [wpc EXCEPT ![w] = "set80"]
          /\ UNCHANGED <<item, length>>
     \/ /\ length[w] # 0
        /\ lock = Free
        /\ lock' = w
        /\ wpc' = [wpc EXCEPT ![w] = "del84"]
        /\ length' = [length EXCEPT ![w] = 0]
        /\ written' = [written EXCEPT ![w] = 0]
        /\ percent' = [percent EXCEPT ![w] = 0]
        /\ UNCHANGED item
     \/ /\ Raise(w)
        /\ UNCHANGED lock
  /\ UNCHANGED <<mainPc, yielded, files, queue, unfinished, currently_downloading,
                 finish, rendererVars, puts, pops, dones, flagWrites>>

\* Lines 75-79, and the end of the with block with line 83: one turn of the
\* chunk loop, up to and with the lock.acquire() that follows it.
\* iter_content delivers the decoded body, so the bytes received are not tied
\* to the header's length.  Either a chunk arrives, is written, percent is
\* computed and the lock is taken (line 79); or the body ends, the file is
\* closed and the lock is taken (line 83); or the read or the write raises,
\* or a chunk arrives for a length of 0 and line 78 divides by zero: then the
\* with block closes the file and the exception leaves worker().
\* The steps before the acquire touch nothing another thread reads, so they
\* are taken with it, when the lock is free.
WorkerChunk(w) ==
  /\ wpc[w] = "chunk"
  /\ \/ \E c \in 1..MaxChunk :
          /\ length[w] # 0
          /\ written[w] + c <= MaxBody
          /\ lock = Free
          /\ written' = [written EXCEPT ![w] = @ + c]
          /\ percent' = [percent EXCEPT ![w] = Percent(written[w] + c, length[w])]
          /\ lock' = w
          /\ wpc' = [wpc EXCEPT ![w] = "set80"]
          /\ UNCHANGED <<item, length>>
     \/ /\ lock = Free
        /\ lock' = w
        /\ wpc' = [wpc EXCEPT ![w] = "del84"]
        /\ length' = [length EXCEPT ![w] = 0]
        /\ written' = [written EXCEPT ![w] = 0]
        /\ percent' = [percent EXCEPT ![w] = 0]
        /\ UNCHANGED item
     \/ /\ Raise(w)
        /\ UNCHANGED lock
  /\ UNCHANGED <<mainPc, yielded, files, queue, unfinished, currently_downloading,
                 finish, rendererVars, puts, pops, dones, flagWrites>>

\* Lines 80-81: the entry takes the new percent and the lock is released.
WorkerUpdate(w) ==
  /\ wpc[w] = "set80"
  /\ currently_downloading' =
       DictSet(currently_downloading, item[w].display_filename, percent[w])
  /\ lock' = Free
  /\ wpc' = [wpc EXCEPT ![w] = "chunk"]
  /\ UNCHANGED <<mainPc, yielded, files, queue, unfinished, finish, workerLocals,
                 rendererVars, puts, pops, dones, flagWrites>>

\* Mutant of WorkerRemove: queue.task_done() (line 86) is called first, then
\* the entry is deleted (lines 83-85), and the worker is back at its loop.
WorkerRemoveAfterTaskDone(w) ==
  /\ wpc[w] = "del84"
  /\ unfinished > 0
  /\ unfinished' = unfinished - 1
  /\ dones' = [dones EXCEPT ![item[w].display_filename] = @ + 1]
  /\ IF item[w].display_filename \in DOMAIN currently_downloading
       THEN /\ currently_downloading' =
                 DictDel(currently_downloading, item[w].display_filename)
            /\ lock' = Free
            /\ wpc' = [wpc EXCEPT ![w] = "poll"]
            /\ ClearLocals(w)
       ELSE /\ Raise(w)
            /\ UNCHANGED <<currently_downloading, lock>>
  /\ UNCHANGED <<mainPc, yielded, files, queue, finish, rendererVars, puts, pops,
                 flagWrites>>

\* Mutant of WorkerRemove: the del of line 84 is left out, the entry stays.
WorkerRemoveKeepsEntry(w) ==
  /\ wpc[w] = "del84"
  /\ lock' = Free
  /\ wpc' = [wpc EXCEPT ![w] = "task_done"]
  /\ UNCHANGED <<mainPc, yielded, files, queue, unfinished, currently_downloading,
                 finish, workerLocals, rendererVars, puts, pops, dones, flagWrites>>

\* Lines 84-85: del currently_downloading[key], then lock.release().  del of
\* a key that is not in the dict raises KeyError before the release.
WorkerRemove(w) ==
  /\ wpc[w] = "del84"
  /\ IF item[w].display_filename \in DOMAIN currently_downloading
       THEN /\ currently_downloading' =
                 DictDel(currently_downloading, item[w].display_filename)
            /\ lock' = Free
            /\ wpc' = [wpc EXCEPT ![w] = "task_done"]
            /\ UNCHANGED workerLocals
       ELSE /\ Raise(w)
            /\ UNCHANGED <<currently_downloading, lock>>
  /\ UNCHANGED <<mainPc, yielded, files, queue, unfinished, finish, rendererVars,
                 puts, pops, dones, flagWrites>>

\* Line 86: queue.task_done(): unfinished_tasks goes down by one (ValueError
\* when it would go below zero).
WorkerTaskDone(w) ==
  /\ wpc[w] = "task_done"
  /\ IF unfinished > 0
       THEN /\ unfinished' = unfinished - 1
            /\ dones' = [dones EXCEPT ![item[w].display_filename] = @ + 1]
            /\ wpc' = [wpc EXCEPT ![w] = "poll"]
            /\ ClearLocals(w)
       ELSE /\ Raise(w)
            /\ UNCHANGED <<unfinished, dones>>
  /\ UNCHANGED <<mainPc, yielded, files, queue, currently_downloading, lock,
                 finish, rendererVars, puts, pops, flagWrites>>

Worker(w) ==
  \/ WorkerPoll(w)
  \/ WorkerAcquire(w)
  \/ WorkerMarkStart(w)
  \/ WorkerRequest(w)
  \/ WorkerChunk(w)
  \/ WorkerUpdate(w)
  \/ WorkerRemove(w)
  \/ WorkerTaskDone(w)

\* ------------------------------------------- downloading_info_thread()

\* Line 101: "\033[{n}F" moves the cursor n lines up, to the start of the line
\* (nothing is printed for n = 0).
CursorUp(row, n) == IF n = 0 THEN row ELSE row - n

\* print(str, end=""): each line of str replaces the line at the cursor (its
\* "\033[K" erases what was left of the old line) and "\n" moves one row down;
\* the rows the print does not reach keep what they showed.
PrintLines(term, row, str) ==
  [n \in 1..(IF row + Len(str) > Len(term) THEN row + Len(str) ELSE Len(term)) |->
     IF n > row /\ n <= row + Len(str) THEN str[n - row] ELSE term[n]]

\* Lines 97-104: while not finish[0]; old_lines = s.count("\n"); the cursor
\* goes up old_lines lines; s = ""; lock.acquire().  The steps before the
\* acquire touch nothing another thread reads, so they are taken with it,
\* when the lock is free.
DiTop ==
  /\ dpc = "top"
  /\ IF finish
       THEN /\ dpc' = "exited"
            /\ UNCHANGED <<s, old_lines, lock, cursor>>
       ELSE /\ lock = Free
            /\ old_lines' = CountLines(s)
            /\ cursor' = CursorUp(cursor, CountLines(s))
            /\ s' = <<>>
            /\ lock' = Renderer
            /\ dpc' = "render"
  /\ UNCHANGED <<mainPc, yielded, files, queue, unfinished, currently_downloading,
                 finish, wpc, workerLocals, terminal, shown, puts, pops, dones,
                 flagWrites>>

\* Lines 105-112: s gets one line per entry and, when the dict is not empty
\* and has fewer lines than the block before, one cleared line for each line
\* that is left over.
RenderBlock(d, old) ==
  LET new_lines == Cardinality(DOMAIN d)
      content == [n \in 1..new_lines |-> "content"]
  IN  IF new_lines # 0 /\ new_lines < old
        THEN content \o [n \in 1..(old - new_lines) |-> "cleared"]
        ELSE content

\* Lines 105-113: the block is built and, when the dict is not empty,
\* printed, the lock still held.
\* old_lines is not read again before line 99 assigns it: the model clears it.
DiRender ==
  /\ dpc = "render"
  /\ s' = RenderBlock(currently_downloading, old_lines)
  /\ IF Cardinality(DOMAIN currently_downloading) # 0
       THEN /\ terminal' = PrintLines(terminal, cursor, s')
            /\ cursor' = cursor + CountLines(s')
       ELSE UNCHANGED <<terminal, cursor>>
  /\ shown' = Cardinality(DOMAIN currently_downloading)
  /\ old_lines' = 0
  /\ dpc' = "unlock114"
  /\ UNCHANGED <<mainPc, yielded, files, queue, unfinished, currently_downloading,
                 lock, finish, wpc, workerLocals, puts, pops, dones, flagWrites>>

\* Lines 114-115: lock.release(); sleep(0.1).
DiRelease ==
  /\ dpc = "unlock114"
  /\ lock' = Free
  /\ dpc' = "top"
  /\ UNCHANGED <<mainPc, yielded, files, queue, unfinished, currently_downloading,
                 finish, wpc, workerLocals, s, old_lines, terminal, cursor, shown,
                 puts, pops, dones, flagWrites>>

Di ==
  \/ DiTop
  \/ DiRender
  \/ DiRelease

\* ------------------------------------------------------- specifications

Next ==
  \/ Main
  \/ \E w \in Workers : Worker(w)
  \/ Di

Spec == Init /\ [][Next]_vars

\* The threads are operating-system threads: each one that can take a step
\* eventually takes one.
Fairness ==
  /\ WF_vars(Main)
  /\ WF_vars(Di)
  /\ \A w \in Workers : WF_vars(Worker(w))

FairSpec == Spec /\ Fairness

\* ---------------------------------------------------------------- claims

\* A worker that holds a task: from the successful queue.get to task_done.
HoldsTask(w) ==
  wpc[w] \in {"lock65", "set67", "request", "chunk", "set80", "del84", "task_done"}

\* A worker whose entry is in the registry by the code's own steps: from the
\* insert of line 67 to the delete of line 84.
Downloading(w) == wpc[w] \in {"request", "chunk", "set80", "del84"}

\* queue.join() has returned.
DrainReturned == mainPc \in {"set_finish", "join_threads", "join_di", "done"}

\* Every thread main() started has ended.
AllThreadsEnded == (\A w \in Workers : WorkerEnded(w)) /\ dpc = "exited"

\* C1 (counterexample): drain termination, in the form a finite run refutes.
\* While main waits in queue.join() with tasks outstanding, some worker still
\* holds a task or can pop one; otherwise task_done is never called again and
\* the join cannot return.
DrainCanStillReturn ==
  (mainPc = "drain" /\ unfinished > 0)
    => \E w \in Workers : HoldsTask(w) \/ (wpc[w] = "poll" /\ queue # <<>>)

\* C2 (counterexample): every successful pop is paired with exactly one
\* task_done: never more signals than pops, and once no worker holds a task
\* with that display_filename, every pop of it has been signalled.
ExactlyOneSignalPerPop ==
  \A k \in Keys :
    /\ dones[k] <= pops[k]
    /\ (\A w \in Workers : item[w].display_filename # k) => dones[k] = pops[k]

\* C3 (counterexample): a display_filename is in currently_downloading if and
\* only if some worker is downloading the task with that key.
RegistryIffDownloading ==
  \A k \in Keys :
    k \in DOMAIN currently_downloading
      <=> \E w \in Workers : Downloading(w) /\ item[w].display_filename = k

\* C4 (counterexample): a failed task does not end the worker thread: from
\* the start of the threads until the shutdown flag is set, all WORKER_COUNT
\* workers are alive.
WorkersSurviveFailures ==
  (mainPc # "start" /\ ~finish)
    => \A w \in Workers : wpc[w] \notin {"dead", "exited"}

\* C5: drain never returns early.  Once queue.join() has returned, the queue
\* is empty, every task that was put has been popped and has signalled
\* completion, and no worker holds a task.
DrainNeverEarly ==
  DrainReturned =>
    /\ queue = <<>>
    /\ \A k \in Keys : pops[k] = puts[k] /\ dones[k] = puts[k]
    /\ \A w \in Workers : ~HoldsTask(w)

\* C5 witness: the join has returned after tasks with two different keys were
\* put and downloaded.
DrainReturnedAfterDownloads ==
  /\ mainPc = "set_finish"
  /\ \E k1, k2 \in Keys : k1 # k2 /\ dones[k1] >= 1 /\ dones[k2] >= 1

\* A step that writes finish[0] is main's line 153, taken after queue.join()
\* returned, turns the flag from false to true and is the first write.
FlagStep ==
  (finish' # finish \/ flagWrites' # flagWrites) =>
    /\ mainPc = "set_finish" /\ mainPc' = "join_threads"
    /\ ~finish /\ finish'
    /\ flagWrites = 0 /\ flagWrites' = 1
    /\ wpc' = wpc /\ dpc' = dpc

\* C6: the shutdown flag starts false and is written only by the producer,
\* only to true, only after the drain call has returned, and at most once; no
\* worker or renderer step writes it.
ShutdownFlagWriteOnce == (finish = FALSE /\ flagWrites = 0) /\ [][FlagStep]_vars

\* C6 witness: the flag has been written and main has returned.
FlagWrittenAndMainDone == finish /\ flagWrites = 1 /\ mainPc = "done"

\* C7: once the flag is set, every worker and the renderer leave their loops
\* and all joins of main return.
ProcessTerminates == finish ~> (mainPc = "done" /\ AllThreadsEnded)

\* C7 witness: main has returned after at least one download was signalled.
MainDoneAfterDownload ==
  /\ mainPc = "done"
  /\ AllThreadsEnded
  /\ \E k \in Keys : dones[k] >= 1

\* C8 (counterexample): after a discovery failure the process terminates:
\* every started worker and the renderer stop.
DiscoveryFailureEndsProcess == (mainPc = "crashed") ~> AllThreadsEnded

\* C9: the registry never holds more than WORKER_COUNT entries.
RegistryAtMostWorkerCount ==
  Cardinality(DOMAIN currently_downloading) <= WORKER_COUNT

\* C9 witness: more tasks than workers have been put (one per title), and
\* the registry holds WORKER_COUNT entries.
RegistryFullWithMoreTasks ==
  /\ Cardinality({k \in Keys : puts[k] >= 1}) > WORKER_COUNT
  /\ Cardinality(DOMAIN currently_downloading) = WORKER_COUNT

\* C10 (counterexample): the percent computed after each chunk is not below
\* the one before it (0 at the start) and lies in 0..100.
PercentMonotoneBounded ==
  [][\A w \in Workers :
       (wpc[w] = "chunk" /\ wpc'[w] = "set80")
         => (percent'[w] >= percent[w] /\ percent'[w] \in 0..100)]_vars

\* C11 (counterexample): when the renderer finds fewer entries than at its
\* pass before (k before, j < k now, j = 0 included), the screen shows after
\* the repaint j content lines, the k - j lines below them are cleared, and no
\* other line still shows text.
ShrinkLeavesNoStaleLine ==
  [][(dpc = "render" /\ dpc' = "unlock114"
        /\ Cardinality(DOMAIN currently_downloading) < shown)
       => LET j == Cardinality(DOMAIN currently_downloading)
          IN  /\ Len(terminal') >= shown
              /\ \A n \in 1..Len(terminal') :
                   terminal'[n] = (IF n <= j THEN "content" ELSE "cleared")]_vars

\* A worker works only on what main put: a display_filename that is in the
\* queue, in a worker's hands or in currently_downloading was put, and never
\* popped more often than put.
OnlyPutTasksAreWorked ==
  \A k \in Keys :
    /\ pops[k] <= puts[k]
    /\ ( \/ k \in DOMAIN currently_downloading
         \/ \E w \in Workers : item[w].display_filename = k
         \/ \E n \in 1..Len(queue) : queue[n].display_filename = k )
       => puts[k] >= 1

\* One pass of main's for loop (yielded grows) either puts nothing, and then
\* the file of some episode exists, or appends one task to the queue, whose
\* file did not exist, and counts it once; no other step puts anything.
EpisodeStep ==
  /\ yielded' = yielded + 1
       => \/ /\ queue' = queue /\ puts' = puts /\ unfinished' = unfinished
             /\ \E k \in Keys : (<<OutputDir>> \o k) \in files
          \/ /\ Len(queue') = Len(queue) + 1
             /\ SubSeq(queue', 1, Len(queue)) = queue
             /\ unfinished' = unfinished + 1
             /\ LET it == queue'[Len(queue')]
                IN  /\ it.filename \notin files
                    /\ it.filename = <<OutputDir>> \o it.display_filename
                    /\ puts' = [puts EXCEPT ![it.display_filename] = @ + 1]
  /\ yielded' # yielded + 1 => puts' = puts

\* C12: an episode whose file exists when main examines it is not enqueued,
\* so no worker requests it or creates an entry for it; an episode whose file
\* does not exist is enqueued exactly once.
ExistingFilesAreSkipped ==
  OnlyPutTasksAreWorked /\ [][EpisodeStep /\ OnlyPutTasksAreWorked']_vars

\* C12 witness: main examined two episodes and put one task; a file that was
\* on disk before the run has no task.
EpisodeSkippedOtherEnqueued ==
  /\ mainPc = "discover"
  /\ yielded = 2
  /\ \E k \in Keys : (<<OutputDir>> \o k) \in files /\ puts[k] = 0
  /\ \E k \in Keys : puts[k] = 1 /\ \A k2 \in Keys \ {k} : puts[k2] = 0

\* Worker w is inside `with open(i["filename"], "wb")` (lines 73-81): the
\* file is open.
FileOpen(w) == wpc[w] \in {"chunk", "set80"}

\* C13 (counterexample): no two workers have the same file open at the same
\* time, and no two workers hold tasks with the same display_filename at the
\* same time, whatever the episodes discovered.
NoSharedFileOrKey ==
  \A w1, w2 \in Workers :
    w1 # w2 =>
      /\ ~(FileOpen(w1) /\ FileOpen(w2) /\ item[w1].filename = item[w2].filename)
      /\ ~(HoldsTask(w1) /\ HoldsTask(w2)
             /\ item[w1].display_filename = item[w2].display_filename)

\* ------------------------------------------- the three-task scenario (C14)

\* The task whose body has no bytes.
ZeroByteKey == DisplayFilename("a", <<"https://cdn/ep", "mp3">>)

\* The run starts with no episode on disk.
ScenarioInit == Init /\ files = {}

\* What the scenario fixes of the program's inputs.  Discovery does not fail
\* and yields one episode for each title (lines 30-52); every GET answers
\* with success, the content-length of the zero-byte task is 0 and of the
\* others at least 1 (lines 69-71); iter_content delivers as many bytes as
\* the header says, none for the zero-byte task, then ends (line 75); no
\* read or write fails.
ScenarioStep ==
  /\ mainPc' # "crashed"
  /\ yielded' = yielded + 1 => (puts' # puts /\ \A k \in Keys : puts'[k] <= 1)
  /\ (mainPc = "discover" /\ mainPc' = "drain") => \A k \in Keys : puts[k] = 1
  /\ \A w \in Workers :
       /\ wpc'[w] # "dead"
       /\ (wpc[w] = "request" /\ wpc'[w] = "chunk")
            => (length'[w] = 0 <=> item[w].display_filename = ZeroByteKey)
       /\ (wpc[w] = "chunk" /\ wpc'[w] = "set80") => written'[w] <= length[w]
       /\ (wpc[w] = "chunk" /\ wpc'[w] = "del84") => written[w] = length[w]

ScenarioMain == Main /\ ScenarioStep

ScenarioWorker(w) == Worker(w) /\ ScenarioStep

ScenarioDi == Di /\ ScenarioStep

ScenarioNext ==
  \/ ScenarioMain
  \/ \E w \in Workers : ScenarioWorker(w)
  \/ ScenarioDi

\* Each thread that can take a step eventually takes one, and a worker that
\* waits for the lock gets it at one of its releases (a blocked acquire is
\* served when the lock is released; the renderer then sleeps 0.1 s).
ScenarioFairness ==
  /\ WF_vars(ScenarioMain)
  /\ WF_vars(ScenarioDi)
  /\ \A w \in Workers : SF_vars(ScenarioWorker(w))

ScenarioSpec == ScenarioInit /\ [][ScenarioNext]_vars /\ ScenarioFairness

\* The worker with the zero-byte task leaves the chunk loop for the delete
\* without a percent update, and while the task's entry is in the dict its
\* value is 0.
ZeroByteTaskStep ==
  /\ \A w \in Workers :
       (item[w].display_filename = ZeroByteKey /\ wpc'[w] # wpc[w])
         => /\ wpc'[w] # "set80"
            /\ wpc[w] = "chunk" => wpc'[w] = "del84"
  /\ ZeroByteKey \in DOMAIN currently_downloading'
       => currently_downloading'[ZeroByteKey] = 0

\* The end of the run: every task signalled once, the dict empty, the join
\* returned, the flag set, every thread ended and the lock free.
ScenarioRunComplete ==
  /\ mainPc = "done"
  /\ AllThreadsEnded
  /\ \A w \in Workers : wpc[w] = "exited"
  /\ finish
  /\ unfinished = 0
  /\ currently_downloading = EmptyDict
  /\ lock = Free
  /\ \A k \in Keys : puts[k] = 1 /\ pops[k] = 1 /\ dones[k] = 1

\* C14: in the scenario of three tasks, one of them with a zero-byte body,
\* the zero-byte task gets an entry at 0, has it removed without a percent
\* update and signals completion, and the run ends with the dict empty, the
\* join returned, the flag set and all threads ended.
ScenarioCompletes == [][ZeroByteTaskStep]_vars /\ <>[]ScenarioRunComplete

\* C14 witness: the three tasks were put, the zero-byte one has been deleted
\* from the dict and signalled, and main has returned.
ScenarioDone ==
  /\ mainPc = "done"
  /\ dones[ZeroByteKey] = 1
  /\ \A k \in Keys : dones[k] = 1

\* C15 (counterexample): the renderer does not hold the lock while it builds
\* its text or prints: the step that builds s and writes the terminal is
\* taken after the lock was released.
RendererPrintsWithoutLock ==
  [][((dpc = "render" /\ dpc' = "unlock114") \/ terminal' # terminal)
       => lock # Renderer]_vars

\* Worker w is between a lock.acquire() and the lock.release() after it.
InLockSection(w) == wpc[w] \in {"set67", "set80", "del84"}

\* A worker holds the lock only inside one of its three lock sections (or,
\* after the del of line 84 raised, as a thread that has ended).
WorkerLockOnlyInSection ==
  \A w \in Workers : lock = w => (InLockSection(w) \/ wpc[w] = "dead")

\* A step in which worker w does network or disk I/O (the GET and the open,
\* reading and writing a chunk, closing the file) is taken without the lock,
\* and a step w takes with the lock touches no file and at most the entry of
\* its own task in the dict.
WorkerLockStep ==
  \A w \in Workers :
    /\ (wpc'[w] # wpc[w] /\ (wpc[w] \in {"request", "chunk"} \/ files' # files))
         => lock # w
    /\ (wpc'[w] # wpc[w] /\ lock = w)
         => /\ files' = files
            /\ written' = written
            /\ length' = length
            /\ \A k \in Keys \ {item[w].display_filename} :
                 /\ k \in DOMAIN currently_downloading'
                      <=> k \in DOMAIN currently_downloading
                 /\ k \in DOMAIN currently_downloading
                      => currently_downloading'[k] = currently_downloading[k]

\* C16: a worker never holds the lock during network or disk I/O; each of
\* its lock sections is a single insert, update or delete of the dict.
WorkerLockSectionsHoldNoIO ==
  WorkerLockOnlyInSection /\ [][WorkerLockStep /\ WorkerLockOnlyInSection']_vars

\* C16 witness: a worker holds the lock for a percent update while its file
\* is open.
WorkerUpdatesUnderLock ==
  \E w \in Workers : lock = w /\ wpc[w] = "set80" /\ item[w].filename \in files

\* The renderer is between its lock.acquire() (line 104) and its
\* lock.release() (line 114).
RendererInLockSection == dpc \in {"render", "unlock114"}

\* At most one thread is inside a lock section, and the lock is held exactly
\* by the thread that is inside one: a thread that acquired the lock is on its
\* way to the release.
LockHeldByThreadInSection ==
  /\ Cardinality({w \in Workers : InLockSection(w)})
       + (IF RendererInLockSection THEN 1 ELSE 0) <= 1
  /\ \A w \in Workers : lock = w <=> InLockSection(w)
  /\ lock = Renderer <=> RendererInLockSection

\* The dict is changed only by the worker that holds the lock, read by the
\* renderer only with the lock, and the lock leaves a thread only by that
\* thread's release.
LockedAccessStep ==
  /\ currently_downloading' # currently_downloading
       => \E w \in Workers : lock = w /\ wpc'[w] # wpc[w]
  /\ (dpc = "render" /\ dpc' # dpc) => lock = Renderer
  /\ (lock # Free /\ lock' # lock)
       => /\ lock' = Free
          /\ \A w \in Workers : lock = w => wpc'[w] # wpc[w]
          /\ lock = Renderer => dpc' # dpc

\* C17 (counterexample): at most one thread is inside a lock section at any
\* time, the dict is read and written only by the thread that holds the lock,
\* and every lock that was acquired is released by the thread that took it.
RegistryMutualExclusion ==
  LockHeldByThreadInSection
    /\ [][LockedAccessStep /\ LockHeldByThreadInSection']_vars

\* C18: once queue.join() has returned, currently_downloading is empty, and
\* no step after that creates an entry.
RegistryEmptyAfterDrain ==
  (DrainReturned => currently_downloading = EmptyDict)
    /\ [][/\ DrainReturned' => currently_downloading' = EmptyDict
          /\ DrainReturned => currently_downloading' = currently_downloading]_vars

\* C18 witness: the join has returned after entries were created and deleted
\* for downloads that ran at the same time, and main waits for the workers.
DrainReturnedRegistryEmptied ==
  /\ mainPc = "join_threads"
  /\ currently_downloading = EmptyDict
  /\ \E k1, k2 \in Keys : k1 # k2 /\ dones[k1] >= 1 /\ dones[k2] >= 1
  /\ terminal # <<>> /\ Len(terminal) = WORKER_COUNT

\* The order of the events of one task, read from the steps of its worker:
\* the request is issued by a worker that has just inserted the entry at 0;
\* a percent update follows a chunk and stores the percent computed for it;
\* the delete follows the end of the body and leaves no entry for the key;
\* task_done is called by a worker that has deleted the entry, and counts the
\* task once.  No other step changes the dict or signals a task.
TaskOrderStep ==
  /\ \A w \in Workers :
       LET key == item[w].display_filename
       IN  wpc'[w] # wpc[w] =>
             /\ wpc'[w] = "request"
                  => /\ wpc[w] = "set67"
                     /\ key \in DOMAIN currently_downloading'
                     /\ currently_downloading'[key] = 0
             /\ wpc'[w] = "chunk"
                  => /\ wpc[w] \in {"request", "set80"}
                     /\ wpc[w] = "set80"
                          => /\ key \in DOMAIN currently_downloading'
                             /\ currently_downloading'[key] = percent[w]
             /\ wpc'[w] = "set80" => wpc[w] = "chunk"
             /\ wpc'[w] = "del84" => wpc[w] = "chunk"
             /\ wpc'[w] = "task_done"
                  => /\ wpc[w] = "del84"
                     /\ key \notin DOMAIN currently_downloading'
             /\ wpc[w] = "task_done"
                  => \/ wpc'[w] = "dead"
                     \/ /\ wpc'[w] = "poll"
                        /\ dones' = [dones EXCEPT ![key] = @ + 1]
  /\ dones' # dones
       => \E w \in Workers : wpc[w] = "task_done" /\ wpc'[w] = "poll"
  /\ currently_downloading' # currently_downloading
       => \E w \in Workers :
            /\ wpc[w] \in {"set67", "set80", "del84"}
            /\ wpc'[w] \in {"request", "chunk", "task_done"}

\* C19: for each task the events come in the order insert at 0, request,
\* percent updates, delete, task_done: the entry is inserted before the
\* request is issued, and task_done never comes before the delete.
TaskEventOrder == [][TaskOrderStep]_vars

\* C19 witness: a worker has inserted, requested, opened the file and deleted
\* the entry and is about to call task_done, while another worker is storing
\* a percent for another task.
TaskAboutToSignal ==
  \E w1, w2 \in Workers :
    /\ wpc[w1] = "task_done"
    /\ item[w1].filename \in files
    /\ item[w1].display_filename \notin DOMAIN currently_downloading
    /\ wpc[w2] = "set80"
    /\ item[w2].display_filename # item[w1].display_filename

\* The tasks with display_filename k that wait in the queue.
Queued(k) == Cardinality({n \in 1..Len(queue) : queue[n].display_filename = k})

\* Every task that was put is either still in the queue or was popped once,
\* and the tasks in workers' hands or signalled are not more than the pops.
EachTaskPoppedOnce ==
  \A k \in Keys :
    /\ pops[k] + Queued(k) = puts[k]
    /\ Cardinality({w \in Workers : HoldsTask(w) /\ item[w].display_filename = k})
         + dones[k] <= pops[k]

\* A pop takes the head off the queue and hands it to the one worker that
\* polled; a worker gets a task in no other way.
PopStep ==
  /\ pops' # pops
       => /\ queue # <<>>
          /\ queue' = Tail(queue)
          /\ pops' = [pops EXCEPT ![Head(queue).display_filename] = @ + 1]
          /\ \E w \in Workers :
               /\ wpc[w] = "poll" /\ wpc'[w] = "lock65"
               /\ item'[w] = Head(queue)
               /\ \A w2 \in Workers \ {w} : item'[w2] = item[w2] /\ wpc'[w2] = wpc[w2]
  /\ \A w \in Workers : (~HoldsTask(w) /\ HoldsTask(w)') => pops' # pops

\* C20: each enqueued task is popped by at most one worker: no task is
\* downloaded by two workers or twice, however the workers' polls interleave.
NoTaskPoppedTwice ==
  EachTaskPoppedOnce /\ [][PopStep /\ EachTaskPoppedOnce']_vars

\* C20 witness: the two workers polled one after the other and hold one task
\* each, while another task still waits in the queue.
TwoWorkersHoldOneTaskEach ==
  /\ queue # <<>>
  /\ \E w1, w2 \in Workers :
       /\ w1 # w2
       /\ HoldsTask(w1) /\ HoldsTask(w2)
       /\ item[w1].display_filename # item[w2].display_filename
       /\ pops[item[w1].display_filename] = 1
       /\ pops[item[w2].display_filename] = 1

====
